---- MODULE Spec2Model ----
(***************************************************************************)
(* Model of app/resources/ann.py: the ANNResource handle (load,            *)
(* maybe_reload, nn_from_id, nn_from_emb, nn_from_payload, get_vector,     *)
(* set_fallback) and Rec.score.                                            *)
(*                                                                         *)
(* Units.  Distances are integers counting tenths (dist 17 is 1.7);        *)
(* scores and thresholds count twentieths, so that 1 - dist/2 is the       *)
(* integer 20 - dist.  An optional number is <<>> when absent (Python      *)
(* None / missing key) and <<v>> when present.  Ordinals are 1-based here  *)
(* and 0-based in Python.                                                  *)
(***************************************************************************)
EXTENDS Integers, Sequences, FiniteSets, TLC

None == "None"
Absent == <<>>
Some(v) == <<v>>
Val(o) == o[1]

Handles == {"h1", "h2", "h3"}

\* request threads sharing one handle (the concurrent specification)
Threads == {"t1", "t2"}
SharedHandle == "h1"
\* what a running nn_from_id has read so far (the load generation each
\* attribute value and the index file came from, 0 for none, one entry of
\* ids per ordinal looked up) and its locals
NoReads == [path |-> 0, meta |-> 0, index |-> 0, ids_d_in |-> 0, ids_d_get |-> 0,
            ids |-> <<>>, q_id |-> "None", k |-> 0, inds |-> <<>>,
            got |-> <<>>, res |-> [err |-> "none", recs |-> <<>>]]
\* the locals of a running maybe_reload: the timestamp it read, the
\* generation its load_via_tar fetched
NoLoad == [ts_read |-> <<>>, gen |-> 0]

\* ---- bounds ----
MaxK == 3
MaxGen == 2
MaxUpdates == 1

\* ---- the remote archives (one per handle and generation) ----
ArchiveIds(h, g) ==
    IF h = "h1" THEN (IF g = 1 THEN <<"A", "B">>
                      ELSE IF g = 2 THEN <<"B", "A", "C">> ELSE <<"C", "A">>)
    ELSE IF h = "h2" THEN (IF g = 1 THEN <<"A", "C">>
                           ELSE IF g = 2 THEN <<"C", "A", "B">> ELSE <<"B", "C">>)
    ELSE (IF g = 1 THEN <<"D", "A", "B", "C">>
          ELSE IF g = 2 THEN <<"A", "D", "C">> ELSE <<"D", "C">>)

\* Embeddings are directions in the plane, in steps of 60 degrees.
EmbOf(id) ==
    CASE id = "A" -> 0
      [] id = "B" -> 1
      [] id = "C" -> 3
      [] id = "D" -> 0
      [] OTHER    -> 2

\* Annoy's angular distance sqrt(2(1-cos t)) = 2 sin(t/2), in tenths,
\* for t = 0, 60, 120, 180 degrees.
DistTable == <<0, 10, 17, 20>>
AngDist(e1, e2) ==
    LET d == IF e1 >= e2 THEN e1 - e2 ELSE e2 - e1
        s == IF d > 6 - d THEN 6 - d ELSE d
    IN DistTable[s + 1]

VARIABLES remote_ts, local_ts, path_index_local, ids, ids_d, ann_meta_d,
          fallback_parent, ooi_ann, ooi_dynamo_table, updates, last,
          pc, tmp, seen, extracted

vars == <<remote_ts, local_ts, path_index_local, ids, ids_d, ann_meta_d,
          fallback_parent, ooi_ann, ooi_dynamo_table, updates, last,
          pc, tmp, seen, extracted>>

\* ---- Rec ----
Rec(id_, dist, lvl) == [id_ |-> id_, dist |-> dist, lvl |-> lvl]

score_NoHalf(dist) == IF dist = Absent THEN Absent ELSE Some(20 - 2 * Val(dist))

\* lines 41-50: 1. - dist / 2., in twentieths of a dist in tenths
score(dist) == IF dist = Absent THEN Absent ELSE Some(20 - Val(dist))

\* ---- collaborators from app/io ----
\* true if the remote archive is newer than the local copy, or there is none
io_needs_reload(h, ts_read) == ts_read = Absent \/ remote_ts[h] > Val(ts_read)

IdsD(seq) == [i \in {seq[j] : j \in 1..Len(seq)} |->
                 CHOOSE j \in 1..Len(seq) :
                     seq[j] = i /\ \A m \in 1..Len(seq) : seq[m] = i => m <= j]

load_via_tar(h, g) ==
    [path |-> <<h, g>>, ids |-> ArchiveIds(h, g), ids_d |-> IdsD(ArchiveIds(h, g)),
     ts_read |-> g, meta |-> [f |-> 1, metric |-> "angular", gen |-> g]]

\* the vectors in the index file of the archive of generation g
index_file(h, g) ==
    LET a == ArchiveIds(h, g)
    IN [i \in 1..Len(a) |-> EmbOf(a[i])]

\* The index is read from the file index.ann in the handle's extract
\* directory (lines 20, 92-94): one file for every generation, holding what
\* the last extraction left there. The generation in `path` only tells
\* which load returned the path.
load_index(path, meta) == index_file(path[1], extracted[path[1]])

\* The points at which a reload can fail, and the archive generations whose
\* index file can lie in the extract directory afterwards: a download error
\* comes before anything is extracted, bad metadata is found after the
\* extraction, a corrupt archive can break off before or after the index
\* file was written. The timestamp file is written by a load that succeeds.
FailStages == {"download", "archive", "metadata"}
load_via_tar_fails(h, stage) ==
    IF stage = "download" THEN {extracted[h]}
    ELSE IF stage = "archive" THEN {extracted[h], remote_ts[h]}
    ELSE {remote_ts[h]}

get_dynamo_emb(table, q_id) == IF q_id = "Z" THEN Some(EmbOf("Z")) ELSE Absent

\* ---- the ANN engine: best-first, ties by ordinal ----
Closer(index, v, i, j) ==
    \/ AngDist(index[i], v) < AngDist(index[j], v)
    \/ AngDist(index[i], v) = AngDist(index[j], v) /\ i < j

RECURSIVE nns(_, _, _, _)
nns(index, v, n, taken) ==
    LET rest == (DOMAIN index) \ {taken[j] : j \in 1..Len(taken)}
    IN IF n <= 0 \/ rest = {} THEN taken
       ELSE LET best == CHOOSE i \in rest :
                            \A j \in rest \ {i} : Closer(index, v, i, j)
            IN nns(index, v, n - 1, Append(taken, best))

get_nns_by_vector(index, v, n, include_distances) ==
    LET inds == nns(index, v, n, <<>>)
    IN [inds |-> inds,
        dists |-> [j \in 1..Len(inds) |->
                     IF include_distances THEN Some(AngDist(index[inds[j]], v))
                     ELSE Absent]]

get_nns_by_item(index, i, n, include_distances) ==
    get_nns_by_vector(index, index[i], n, include_distances)

get_item_vector(index, i) == index[i]

\* ---- ANNResource ----
Ok(recs) == [err |-> "none", recs |-> recs]
Err(e) == [err |-> e, recs |-> <<>>]

\* Depth at which a recursion through fallback parents can only be endless:
\* a (handle, k) pair has repeated.
RecursionLimit == Cardinality(Handles) * (MaxK + 1)

\* lines 96-105: the timestamp file of the extracted archive
ts_read_utc(h) == local_ts[h]

\* lines 107-109
needs_reload(h) == io_needs_reload(h, ts_read_utc(h))

ann_index(h) == load_index(path_index_local[h], ann_meta_d[h])

recs_via_ann_out(h, ann_out, incl_dist, lvl) ==
    IF \E j \in 1..Len(ann_out.inds) : ann_out.inds[j] > Len(ids[h])
    THEN Err("IndexError")
    ELSE Ok([j \in 1..Len(ann_out.inds) |->
               Rec(ids[h][ann_out.inds[j]],
                   IF incl_dist THEN ann_out.dists[j] ELSE Absent, lvl)])

nn_from_emb(h, q_emb, k, incl_dist, lvl) ==
    recs_via_ann_out(h, get_nns_by_vector(ann_index(h), q_emb, k, incl_dist),
                     incl_dist, lvl)

RECURSIVE get_vector(_, _, _)
get_vector(h, q_id, fuel) ==
    IF q_id \in DOMAIN ids_d[h]
    THEN Some(get_item_vector(ann_index(h), ids_d[h][q_id]))
    ELSE IF ooi_dynamo_table[h] # None
    THEN get_dynamo_emb(ooi_dynamo_table[h], q_id)
    ELSE IF ooi_ann[h] # None /\ fuel > 0
    THEN get_vector(ooi_ann[h], q_id, fuel - 1)
    ELSE Absent

DropSelf_Keep(res, q_id) == res

\* line 183
DropSelf(res, q_id) ==
    IF res.err # "none" THEN res
    ELSE Ok(SelectSeq(res.recs, LAMBDA n : n.id_ # q_id))

nn_from_id(h, q_id, k, incl_dist, lvl) ==
    IF q_id \in DOMAIN ids_d[h]
    THEN DropSelf(recs_via_ann_out(h,
                     get_nns_by_item(ann_index(h), ids_d[h][q_id], k + 1, incl_dist),
                     incl_dist, lvl), q_id)
    ELSE IF ooi_dynamo_table[h] # None
    THEN LET q_emb == get_dynamo_emb(ooi_dynamo_table[h], q_id)
         IN IF q_emb = Absent THEN Err("OoiNotInDynamoTable")
            ELSE DropSelf(nn_from_emb(h, Val(q_emb), k, incl_dist, lvl), q_id)
    ELSE IF ooi_ann[h] # None
    THEN LET q_emb == get_vector(ooi_ann[h], q_id, Cardinality(Handles))
         IN IF q_emb = Absent THEN Err("OoiNotInOoiAnn")
            ELSE DropSelf(nn_from_emb(h, Val(q_emb), k, incl_dist, lvl), q_id)
    ELSE Err("OoiNoTable")

\* lines 189-194: float(thresh_score) if thresh_score else False
thresh_of(payload) ==
    IF payload.thresh_score # Absent /\ Val(payload.thresh_score) # 0
    THEN payload.thresh_score ELSE Absent

include_distances_FlagsOnly(payload) == payload.incl_dist \/ payload.incl_score

\* line 194
include_distances(payload) ==
    payload.incl_dist \/ payload.incl_score \/ thresh_of(payload) # Absent

\* lines 196-205: the handle's own neighbours
own_neighbors(h, payload, lvl) ==
    IF payload.id # None
    THEN nn_from_id(h, payload.id, payload.k, include_distances(payload), lvl)
    ELSE IF payload.emb # Absent
    THEN nn_from_emb(h, Val(payload.emb), payload.k, include_distances(payload), lvl)
    ELSE Err("NoIdOrEmb")

\* lines 215-216
filter_thresh(recs, thresh) ==
    IF thresh = Absent THEN Ok(recs)
    ELSE IF \E j \in 1..Len(recs) : score(recs[j].dist) = Absent
    THEN Err("TypeError")
    ELSE Ok(SelectSeq(recs, LAMBDA n : Val(score(n.dist)) > Val(thresh)))

truncate_None(recs, k) == recs

\* line 218: neighbors[:k], k >= 0
truncate(recs, k) == SubSeq(recs, 1, IF Len(recs) < k THEN Len(recs) ELSE k)

\* line 209
needs_fallback(h, n, k) == n < k /\ fallback_parent[h] # None

deficit_FullK(k, n) == k

\* line 211
deficit(k, n) == k - n

fallback_payload_NoThresh(payload, n) ==
    [payload EXCEPT !.k = deficit(payload.k, n), !.thresh_score = Absent]

\* line 211: {**payload, **{'k': k - len(neighbors)}}
fallback_payload(payload, n) == [payload EXCEPT !.k = deficit(payload.k, n)]

fallback_target_Self(h) == h

\* line 210: self.fallback_parent
fallback_target(h) == fallback_parent[h]

\* the outcome of a call together with the calls made for it, in order:
\* the handle asked, the payload it got, the number of its own neighbours
WithCalls(res, calls) == [err |-> res.err, recs |-> res.recs, calls |-> calls]

backfill_DropFallback(neighbors, neighbors_fallback) == neighbors

backfill_FallbackFirst(neighbors, neighbors_fallback) ==
    neighbors_fallback \o neighbors

\* line 213
backfill(neighbors, neighbors_fallback) == neighbors \o neighbors_fallback

RECURSIVE nn_from_payload(_, _, _)
nn_from_payload(h, payload, depth) ==
    IF depth >= RecursionLimit THEN WithCalls(Err("RecursionError"), <<>>)
    ELSE
    LET k == payload.k
        own == own_neighbors(h, payload, depth)
        me == <<[h |-> h, payload |-> payload, own |-> Len(own.recs)]>>
    IN IF own.err # "none" THEN WithCalls(own, me)
       ELSE LET fb == IF needs_fallback(h, Len(own.recs), k)
                      THEN nn_from_payload(fallback_target(h),
                               fallback_payload(payload, Len(own.recs)),
                               depth + 1)
                      ELSE WithCalls(Ok(<<>>), <<>>)
                calls == me \o fb.calls
            IN IF fb.err # "none" THEN WithCalls(fb, calls)
               ELSE LET kept == filter_thresh(backfill(own.recs, fb.recs),
                                              thresh_of(payload))
                    IN IF kept.err # "none" THEN WithCalls(kept, calls)
                       ELSE WithCalls(Ok(truncate(kept.recs, k)), calls)

\* lines 52-58
to_dict(n, incl_dist, incl_score) ==
    [id |-> n.id_,
     dist |-> IF incl_dist THEN n.dist ELSE Absent,
     score |-> IF incl_score THEN score(n.dist) ELSE Absent]

\* lines 234-258: the body is the JSON object {recs, id_type}, or the JSON
\* list [] written by the except branch
on_post(h, payload) ==
    LET res == nn_from_payload(h, payload, 0)
    IN IF res.err = "none"
       THEN [status |-> "HTTP_200",
             body |-> [kind |-> "object",
                       recs |-> [j \in 1..Len(res.recs) |->
                                   to_dict(res.recs[j], payload.incl_dist,
                                           payload.incl_score)],
                       id_type |-> "-"]]
       ELSE [status |-> "HTTP_200",
             body |-> [kind |-> "list", recs |-> <<>>, id_type |-> None]]

\* ---- requests ----
QueryIds == {"A", "D", "Z"}
QueryEmbs == {0}
ThreshVals == {0, 3}

Payloads ==
    [id : QueryIds \cup {None}, emb : {Absent} \cup {Some(e) : e \in QueryEmbs},
     k : 0..MaxK, incl_dist : BOOLEAN, incl_score : BOOLEAN,
     thresh_score : {Absent} \cup {Some(t) : t \in ThreshVals}]

NoPayload == [id |-> None, emb |-> Absent, k |-> 0, incl_dist |-> FALSE,
              incl_score |-> FALSE, thresh_score |-> Absent]

\* `last` is the call the (single-threaded) caller has made and its outcome;
\* the caller makes its next call once the outcome has been returned to it.
IdleCall == [op |-> "idle", h |-> None, payload |-> NoPayload, res |-> Ok(<<>>),
             stale |-> FALSE, gen |-> 0]
Idle == last.op = "idle"

\* the handle set_fallback may link h to, and the peer index h may be given
Succ(h) == IF h = "h1" THEN "h2" ELSE IF h = "h2" THEN "h3" ELSE "h1"
Peer(h) == IF h = "h1" THEN "h3" ELSE IF h = "h2" THEN "h1" ELSE "h2"

Loaded_ForgetIdsD(h, g) ==
    LET l == load_via_tar(h, g)
    IN /\ path_index_local' = [path_index_local EXCEPT ![h] = l.path]
       /\ ids' = [ids EXCEPT ![h] = l.ids]
       /\ ids_d' = ids_d
       /\ ann_meta_d' = [ann_meta_d EXCEPT ![h] = l.meta]
       /\ local_ts' = [local_ts EXCEPT ![h] = Some(l.ts_read)]
       /\ extracted' = [extracted EXCEPT ![h] = g]

\* lines 115-122: load(reload=True), every field from one load_via_tar result
Loaded(h, g) ==
    LET l == load_via_tar(h, g)
    IN /\ path_index_local' = [path_index_local EXCEPT ![h] = l.path]
       /\ ids' = [ids EXCEPT ![h] = l.ids]
       /\ ids_d' = [ids_d EXCEPT ![h] = l.ids_d]
       /\ ann_meta_d' = [ann_meta_d EXCEPT ![h] = l.meta]
       /\ local_ts' = [local_ts EXCEPT ![h] = Some(l.ts_read)]
       /\ extracted' = [extracted EXCEPT ![h] = g]

Init ==
    /\ remote_ts = [h \in Handles |-> 1]
    /\ local_ts = [h \in Handles |-> Some(1)]
    /\ path_index_local = [h \in Handles |-> load_via_tar(h, 1).path]
    /\ ids = [h \in Handles |-> load_via_tar(h, 1).ids]
    /\ ids_d = [h \in Handles |-> load_via_tar(h, 1).ids_d]
    /\ ann_meta_d = [h \in Handles |-> load_via_tar(h, 1).meta]
    /\ fallback_parent = [h \in Handles |-> None]
    /\ ooi_ann = [h \in Handles |-> None]
    /\ ooi_dynamo_table = [h \in Handles |-> IF h = "h1" THEN "T" ELSE None]
    /\ updates = 0
    /\ last = IdleCall
    /\ pc = [t \in Threads |-> "idle"]
    /\ tmp = [t \in Threads |-> NoLoad]
    /\ seen = [t \in Threads |-> NoReads]
    /\ extracted = [h \in Handles |-> 1]

\* the handles whose remote archive gets replaced while the service runs
Republished == {SharedHandle}

\* The remote archive is replaced by a newer one.
RemoteUpdate(h) ==
    /\ Idle
    /\ remote_ts[h] < MaxGen
    /\ updates < MaxUpdates
    /\ remote_ts' = [remote_ts EXCEPT ![h] = @ + 1]
    /\ updates' = updates + 1
    /\ last' = [op |-> "remote_update", h |-> h, payload |-> NoPayload,
                res |-> Ok(<<>>), stale |-> TRUE, gen |-> 0]
    /\ UNCHANGED <<local_ts, path_index_local, ids, ids_d, ann_meta_d,
                   fallback_parent, ooi_ann, ooi_dynamo_table,
                   pc, tmp, seen, extracted>>

\* maybe_reload, with a load that succeeds
MaybeReload(h) ==
    /\ Idle
    /\ IF needs_reload(h) THEN Loaded(h, remote_ts[h])
       ELSE UNCHANGED <<local_ts, path_index_local, ids, ids_d, ann_meta_d, extracted>>
    /\ last' = [op |-> "maybe_reload", h |-> h, payload |-> NoPayload,
                res |-> Ok(<<>>), stale |-> needs_reload(h), gen |-> remote_ts[h]]
    /\ UNCHANGED <<remote_ts, fallback_parent, ooi_ann, ooi_dynamo_table, updates,
                   pc, tmp, seen>>

\* the handle's loaded fields
Fields(h) == <<path_index_local[h], ids[h], ids_d[h], ann_meta_d[h]>>

\* maybe_reload, with a load_via_tar that raises at some stage: the
\* assignment of line 119 never runs and the exception leaves maybe_reload;
\* the extract directory holds what load_via_tar left in it. `before` keeps
\* the fields the handle had, and the index its queries searched, when
\* maybe_reload was called.
MaybeReloadFails(h) ==
    /\ Idle
    /\ needs_reload(h)
    /\ \E stage \in FailStages : \E g \in load_via_tar_fails(h, stage) :
          /\ extracted' = [extracted EXCEPT ![h] = g]
          /\ last' = [op |-> "maybe_reload", h |-> h, payload |-> NoPayload,
                      res |-> Err("ReloadFailed"), stale |-> TRUE,
                      gen |-> remote_ts[h], stage |-> stage,
                      before |-> [fields |-> Fields(h), index |-> ann_index(h)]]
    /\ UNCHANGED <<remote_ts, local_ts, path_index_local, ids, ids_d, ann_meta_d,
                   fallback_parent, ooi_ann, ooi_dynamo_table, updates,
                   pc, tmp, seen>>

SetFallback(h, p) ==
    /\ Idle
    /\ fallback_parent' = [fallback_parent EXCEPT ![h] = p]
    /\ last' = [op |-> "set_fallback", h |-> h, payload |-> NoPayload,
                res |-> Ok(<<>>), stale |-> needs_reload(h), gen |-> 0]
    /\ UNCHANGED <<remote_ts, local_ts, path_index_local, ids, ids_d, ann_meta_d,
                   ooi_ann, ooi_dynamo_table, updates,
                   pc, tmp, seen, extracted>>

SetOoiAnn(h, p) ==
    /\ Idle
    /\ ooi_ann' = [ooi_ann EXCEPT ![h] = p]
    /\ last' = [op |-> "set_ooi_ann", h |-> h, payload |-> NoPayload,
                res |-> Ok(<<>>), stale |-> needs_reload(h), gen |-> 0]
    /\ UNCHANGED <<remote_ts, local_ts, path_index_local, ids, ids_d, ann_meta_d,
                   fallback_parent, ooi_dynamo_table, updates,
                   pc, tmp, seen, extracted>>

\* a POST request: on_post and the nn_from_payload call it makes
Query(h, payload) ==
    /\ Idle
    /\ last' = [op |-> "nn_from_payload", h |-> h, payload |-> payload,
                res |-> nn_from_payload(h, payload, 0),
                resp |-> on_post(h, payload),
                stale |-> needs_reload(h), gen |-> path_index_local[h][2]]
    /\ UNCHANGED <<remote_ts, local_ts, path_index_local, ids, ids_d, ann_meta_d,
                   fallback_parent, ooi_ann, ooi_dynamo_table, updates,
                   pc, tmp, seen, extracted>>

Return ==
    /\ ~Idle
    /\ last' = IdleCall
    /\ UNCHANGED <<remote_ts, local_ts, path_index_local, ids, ids_d, ann_meta_d,
                   fallback_parent, ooi_ann, ooi_dynamo_table, updates,
                   pc, tmp, seen, extracted>>

Next ==
    \/ Return
    \/ \E h \in Republished : RemoteUpdate(h)
    \/ \E h \in Handles : MaybeReload(h)
    \/ \E h \in Handles : MaybeReloadFails(h)
    \/ \E h \in Handles : \E p \in {None, Succ(h)} : SetFallback(h, p)
    \/ \E h \in Handles : \E p \in {None, Peer(h)} : SetOoiAnn(h, p)
    \/ \E h \in Handles : \E payload \in Payloads : Query(h, payload)

Spec == Init /\ [][Next]_vars

\* ---- concurrent requests on one handle ----
\* Each thread runs maybe_reload or an in-index nn_from_id on SharedHandle,
\* one attribute access at a time (the interpreter may switch threads
\* between any two of them).
conf_vars == <<fallback_parent, ooi_ann, ooi_dynamo_table, last>>

CRemoteUpdate ==
    /\ remote_ts[SharedHandle] < MaxGen
    /\ updates < MaxUpdates
    /\ remote_ts' = [remote_ts EXCEPT ![SharedHandle] = @ + 1]
    /\ updates' = updates + 1
    /\ UNCHANGED <<local_ts, path_index_local, ids, ids_d, ann_meta_d, conf_vars,
                   pc, tmp, seen, extracted>>

\* lines 98-99: maybe_reload evaluates self.needs_reload, which first
\* looks whether the extracted archive has a timestamp file
MR_TsExists(t) ==
    /\ pc[t] = "idle"
    /\ tmp' = [tmp EXCEPT ![t] = NoLoad]
    /\ pc' = [pc EXCEPT ![t] = IF local_ts[SharedHandle] = Absent
                              THEN "needs_reload" ELSE "ts_read"]
    /\ UNCHANGED <<remote_ts, local_ts, path_index_local, ids, ids_d, ann_meta_d,
                   conf_vars, updates, seen, extracted>>

\* lines 102-104: then it opens and reads the file
MR_ReadTs(t) ==
    /\ pc[t] = "ts_read"
    /\ tmp' = [tmp EXCEPT ![t] = [NoLoad EXCEPT !.ts_read = ts_read_utc(SharedHandle)]]
    /\ pc' = [pc EXCEPT ![t] = "needs_reload"]
    /\ UNCHANGED <<remote_ts, local_ts, path_index_local, ids, ids_d, ann_meta_d,
                   conf_vars, updates, seen, extracted>>

\* lines 109, 125: then it asks the remote time and compares it with the
\* timestamp read before; a handle found fresh makes maybe_reload return
MR_Check(t) ==
    /\ pc[t] = "needs_reload"
    /\ IF io_needs_reload(SharedHandle, tmp[t].ts_read)
       THEN /\ pc' = [pc EXCEPT ![t] = "load_via_tar"]
            /\ tmp' = tmp
       ELSE /\ pc' = [pc EXCEPT ![t] = "idle"]
            /\ tmp' = [tmp EXCEPT ![t] = NoLoad]
    /\ UNCHANGED <<remote_ts, local_ts, path_index_local, ids, ids_d, ann_meta_d,
                   conf_vars, updates, seen, extracted>>

\* line 121: the call extracts the archive and returns the tuple of the
\* generation it fetched
MR_LoadViaTar(t) ==
    /\ pc[t] = "load_via_tar"
    /\ tmp' = [tmp EXCEPT ![t].gen = remote_ts[SharedHandle]]
    /\ local_ts' = [local_ts EXCEPT ![SharedHandle] = Some(remote_ts[SharedHandle])]
    /\ extracted' = [extracted EXCEPT ![SharedHandle] = remote_ts[SharedHandle]]
    /\ pc' = [pc EXCEPT ![t] = "store_path"]
    /\ UNCHANGED <<remote_ts, path_index_local, ids, ids_d, ann_meta_d,
                   conf_vars, updates, seen>>

\* lines 119-120: the targets of the tuple assignment, left to right
MR_StorePath(t) ==
    /\ pc[t] = "store_path"
    /\ path_index_local' = [path_index_local EXCEPT ![SharedHandle] =
                               load_via_tar(SharedHandle, tmp[t].gen).path]
    /\ pc' = [pc EXCEPT ![t] = "store_ids"]
    /\ UNCHANGED <<remote_ts, local_ts, ids, ids_d, ann_meta_d,
                   conf_vars, updates, tmp, seen, extracted>>

MR_StoreIds(t) ==
    /\ pc[t] = "store_ids"
    /\ ids' = [ids EXCEPT ![SharedHandle] = load_via_tar(SharedHandle, tmp[t].gen).ids]
    /\ pc' = [pc EXCEPT ![t] = "store_ids_d"]
    /\ UNCHANGED <<remote_ts, local_ts, path_index_local, ids_d, ann_meta_d,
                   conf_vars, updates, tmp, seen, extracted>>

MR_StoreIdsD(t) ==
    /\ pc[t] = "store_ids_d"
    /\ ids_d' = [ids_d EXCEPT ![SharedHandle] =
                    load_via_tar(SharedHandle, tmp[t].gen).ids_d]
    /\ pc' = [pc EXCEPT ![t] = "store_meta"]
    /\ UNCHANGED <<remote_ts, local_ts, path_index_local, ids, ann_meta_d,
                   conf_vars, updates, tmp, seen, extracted>>

\* line 121 (last target), then load and maybe_reload return
MR_StoreMeta(t) ==
    /\ pc[t] = "store_meta"
    /\ ann_meta_d' = [ann_meta_d EXCEPT ![SharedHandle] =
                         load_via_tar(SharedHandle, tmp[t].gen).meta]
    /\ pc' = [pc EXCEPT ![t] = "idle"]
    /\ tmp' = [tmp EXCEPT ![t] = NoLoad]
    /\ UNCHANGED <<remote_ts, local_ts, path_index_local, ids, ids_d,
                   conf_vars, updates, seen, extracted>>

\* the generation a loaded id list / id map belongs to
GenOfIds(h, l) == CHOOSE g \in 1..MaxGen : ArchiveIds(h, g) = l
GenOfIdsD(h, d) == CHOOSE g \in 1..MaxGen : IdsD(ArchiveIds(h, g)) = d

\* the identifiers the concurrent queries ask for: in every generation of
\* the shared handle ("A"), in the later ones only ("C"), in none but in the
\* table ("Z")
ConcQueryIds == {"A", "C", "Z"}
\* and the numbers of neighbours they ask for
ConcKs == {0, 1, 2}

\* one step of a running query: its reads and locals become s, it goes to `to`
QStep(t, to, s) ==
    /\ seen' = [seen EXCEPT ![t] = s]
    /\ pc' = [pc EXCEPT ![t] = to]
    /\ UNCHANGED <<remote_ts, local_ts, path_index_local, ids, ids_d, ann_meta_d,
                   conf_vars, updates, tmp, extracted>>

\* the index the query searches: the one it loaded at line 113
QIndex(t) == index_file(SharedHandle, seen[t].index)

\* lines 139-142, 183: the Recs of the ids looked up (distances not asked
\* for), without the query id
QResult(got, q_id) ==
    DropSelf(Ok([j \in 1..Len(got) |-> Rec(got[j], Absent, 0)]), q_id)

\* after the search: to the id look-ups, or straight to the end if the
\* search returned no ordinal
QSearched(t, s, inds) ==
    IF inds = <<>>
    THEN QStep(t, "q_done", [s EXCEPT !.res = QResult(<<>>, s.q_id)])
    ELSE QStep(t, "read_ids", [s EXCEPT !.inds = inds])

\* lines 153, 113: self.ann_index reads path_index_local, then ann_meta_d
Q_ReadPath(t) ==
    /\ pc[t] = "idle"
    /\ \E q_id \in ConcQueryIds, k \in ConcKs :
          QStep(t, "read_meta",
                [NoReads EXCEPT !.q_id = q_id, !.k = k,
                                !.path = path_index_local[SharedHandle][2]])

Q_ReadMeta(t) ==
    /\ pc[t] = "read_meta"
    /\ QStep(t, "load_index",
             [seen[t] EXCEPT !.meta = ann_meta_d[SharedHandle].gen])

\* line 113: load_index opens the index file, after both attribute reads
Q_LoadIndex(t) ==
    /\ pc[t] = "load_index"
    /\ QStep(t, "read_ids_d_in",
             [seen[t] EXCEPT !.index = extracted[SharedHandle]])

\* line 154: q_id in self.ids_d; lines 162-182 when it is not
Q_ReadIdsDIn(t) ==
    /\ pc[t] = "read_ids_d_in"
    /\ LET s == [seen[t] EXCEPT
                    !.ids_d_in = GenOfIdsD(SharedHandle, ids_d[SharedHandle])]
           q_emb == IF ooi_dynamo_table[SharedHandle] # None
                    THEN get_dynamo_emb(ooi_dynamo_table[SharedHandle], s.q_id)
                    ELSE IF ooi_ann[SharedHandle] # None
                    THEN get_vector(ooi_ann[SharedHandle], s.q_id,
                                    Cardinality(Handles))
                    ELSE Absent
           e == IF ooi_dynamo_table[SharedHandle] # None THEN "OoiNotInDynamoTable"
                ELSE IF ooi_ann[SharedHandle] # None THEN "OoiNotInOoiAnn"
                ELSE "OoiNoTable"
       IN IF s.q_id \in DOMAIN ids_d[SharedHandle]
          THEN QStep(t, "read_ids_d_get", s)
          ELSE IF q_emb = Absent
          THEN QStep(t, "q_done", [s EXCEPT !.res = Err(e)])
          ELSE QSearched(t, s, get_nns_by_vector(QIndex(t), Val(q_emb),
                                                 s.k, FALSE).inds)

\* lines 155-159: self.ids_d[q_id], then the search for k + 1 items
Q_ReadIdsDGet(t) ==
    /\ pc[t] = "read_ids_d_get"
    /\ LET s == [seen[t] EXCEPT
                    !.ids_d_get = GenOfIdsD(SharedHandle, ids_d[SharedHandle])]
       IN IF s.q_id \notin DOMAIN ids_d[SharedHandle]
          THEN QStep(t, "q_done", [s EXCEPT !.res = Err("KeyError")])
          ELSE LET q_ind == ids_d[SharedHandle][s.q_id]
               IN IF q_ind \notin DOMAIN QIndex(t)
                  THEN QStep(t, "q_done", [s EXCEPT !.res = Err("IndexError")])
                  ELSE QSearched(t, s, get_nns_by_item(QIndex(t), q_ind,
                                                       s.k + 1, FALSE).inds)

\* line 138: self.ids[ind], once for every ordinal the search returned
Q_ReadIds(t) ==
    /\ pc[t] = "read_ids"
    /\ LET ind == seen[t].inds[Len(seen[t].got) + 1]
           s == [seen[t] EXCEPT
                    !.ids = Append(@, GenOfIds(SharedHandle, ids[SharedHandle]))]
       IN IF ind > Len(ids[SharedHandle])
          THEN QStep(t, "q_done", [s EXCEPT !.res = Err("IndexError")])
          ELSE LET got == Append(s.got, ids[SharedHandle][ind])
               IN IF Len(got) < Len(s.inds)
                  THEN QStep(t, "read_ids", [s EXCEPT !.got = got])
                  ELSE QStep(t, "q_done",
                             [s EXCEPT !.got = got, !.res = QResult(got, s.q_id)])

\* line 185
Q_Return(t) ==
    /\ pc[t] = "q_done"
    /\ QStep(t, "idle", NoReads)

NextConc ==
    \/ CRemoteUpdate
    \/ \E t \in Threads : MR_TsExists(t)
    \/ \E t \in Threads : MR_ReadTs(t)
    \/ \E t \in Threads : MR_Check(t)
    \/ \E t \in Threads : MR_LoadViaTar(t)
    \/ \E t \in Threads : MR_StorePath(t)
    \/ \E t \in Threads : MR_StoreIds(t)
    \/ \E t \in Threads : MR_StoreIdsD(t)
    \/ \E t \in Threads : MR_StoreMeta(t)
    \/ \E t \in Threads : Q_ReadPath(t)
    \/ \E t \in Threads : Q_ReadMeta(t)
    \/ \E t \in Threads : Q_LoadIndex(t)
    \/ \E t \in Threads : Q_ReadIdsDIn(t)
    \/ \E t \in Threads : Q_ReadIdsDGet(t)
    \/ \E t \in Threads : Q_ReadIds(t)
    \/ \E t \in Threads : Q_Return(t)

SpecConc == Init /\ [][NextConc]_vars

\* ---- properties ----
IsQuery == last.op = "nn_from_payload"
Returned == IsQuery /\ last.res.err = "none"
ById == last.payload.id # None
Result == last.res.recs
Own == own_neighbors(last.h, last.payload, 0)
OoiErrors == {"OoiNotInDynamoTable", "OoiNotInOoiAnn", "OoiNoTable"}

RECURSIVE IsSubseq(_, _)
IsSubseq(s, t) ==
    IF s = <<>> THEN TRUE
    ELSE IF t = <<>> THEN FALSE
    ELSE IF Head(s) = Head(t) THEN IsSubseq(Tail(s), Tail(t))
    ELSE IsSubseq(s, Tail(t))

\* C1: an id query for an identifier the handle indexes, with k >= 1, never
\* returns that identifier, from the handle itself or from a fallback parent.
Thm_C1_NoSelfMatch ==
    (Returned /\ ById /\ last.payload.k >= 1
       /\ last.payload.id \in DOMAIN ids_d[last.h])
    => \A j \in 1..Len(Result) : Result[j].id_ # last.payload.id

\* a fallback parent that indexes the queried id contributed neighbours
Wit_C1 ==
    /\ Returned /\ ById /\ last.payload.k >= 1
    /\ last.payload.id \in DOMAIN ids_d[last.h]
    /\ fallback_parent[last.h] # None
    /\ last.payload.id \in DOMAIN ids_d[fallback_parent[last.h]]
    /\ \E j \in 1..Len(Result) : Result[j].lvl >= 1

\* C2 as stated: no query is searched against a handle that is stale when the
\* query starts.
C2_NoStaleSearch == Returned => ~last.stale

\* C2 amended: nn_from_payload checks nothing and reloads nothing: it searches
\* the generation the handle holds, stale or not, and leaves it in place;
\* maybe_reload is where staleness is checked, and a maybe_reload that does
\* not raise leaves the handle holding the remote generation.
Thm_C2_ReloadOnlyInMaybeReload ==
    /\ IsQuery =>
          /\ last.stale = needs_reload(last.h)
          /\ last.gen = Val(local_ts[last.h])
          /\ path_index_local[last.h] = <<last.h, last.gen>>
    /\ (last.op = "maybe_reload" /\ last.res.err = "none") =>
          /\ local_ts[last.h] = Some(remote_ts[last.h])
          /\ path_index_local[last.h] = <<last.h, remote_ts[last.h]>>
          /\ ids[last.h] = ArchiveIds(last.h, remote_ts[last.h])
          /\ ids_d[last.h] = IdsD(ArchiveIds(last.h, remote_ts[last.h]))
          /\ ann_meta_d[last.h].gen = remote_ts[last.h]

Wit_C2 ==
    /\ last.op = "maybe_reload" /\ last.res.err = "none" /\ last.stale
    /\ path_index_local[last.h][2] = 2

\* a query answered from a stale handle
Wit_C2_StaleQuery == Returned /\ last.stale /\ Len(Result) > 0

\* C3: a query running next to load() reads path, metadata, ids_d and ids
\* from one load generation.
ReadGens(t) ==
    ({seen[t].path, seen[t].meta, seen[t].ids_d_in, seen[t].ids_d_get}
        \cup {seen[t].ids[j] : j \in 1..Len(seen[t].ids)}) \ {0}

C3_OneGeneration ==
    \A t \in Threads : pc[t] = "q_done" => Cardinality(ReadGens(t)) <= 1

\* C4: without thresh_score, a handle with a fallback parent that yields
\* p < k neighbours of its own returns min(k, p + f) neighbours, f being what
\* the parent returns for the same query.
FallbackSame == nn_from_payload(fallback_parent[last.h], last.payload, 1)
C4_Case ==
    /\ Returned /\ last.payload.thresh_score = Absent
    /\ fallback_parent[last.h] # None
    /\ Own.err = "none" /\ Len(Own.recs) < last.payload.k
    /\ FallbackSame.err = "none"

Thm_C4_BackfillCount ==
    C4_Case =>
        LET p == Len(Own.recs)
            f == Len(FallbackSame.recs)
            k == last.payload.k
        IN Len(Result) = IF p + f < k THEN p + f ELSE k

\* the parent has more than the deficit to offer, and the handle has some
Wit_C4 ==
    /\ C4_Case
    /\ Len(Own.recs) >= 1
    /\ Len(Own.recs) + Len(FallbackSame.recs) > last.payload.k

\* C5: the handle's own neighbours come first, in its engine's order, then
\* the fallback's in the fallback's order, whatever the scores and the
\* threshold.
FallbackAsked ==
    nn_from_payload(fallback_target(last.h),
                    fallback_payload(last.payload, Len(Own.recs)), 1)
\* the calls made for the query, and what the parent would hand back if it
\* got no threshold
Calls == last.res.calls
FallbackUnfiltered ==
    nn_from_payload(fallback_target(last.h),
                    [fallback_payload(last.payload, Len(Own.recs))
                        EXCEPT !.thresh_score = Absent, !.incl_dist = TRUE], 1)
OwnPart == SelectSeq(Result, LAMBDA n : n.lvl = 0)
FallbackPart == SelectSeq(Result, LAMBDA n : n.lvl >= 1)

Thm_C5_PrimaryFirst ==
    Returned =>
        /\ \A i, j \in 1..Len(Result) :
              (Result[i].lvl = 0 /\ Result[j].lvl >= 1) => i < j
        /\ IsSubseq(OwnPart, Own.recs)
        /\ FallbackPart # <<>> =>
              /\ fallback_parent[last.h] # None
              /\ IsSubseq(FallbackPart, FallbackAsked.recs)

\* a fallback neighbour follows an own neighbour of lower score, and the
\* threshold removed something
Wit_C5 ==
    /\ Returned /\ thresh_of(last.payload) # Absent
    /\ Len(Result) < last.payload.k
    /\ \/ Len(OwnPart) < Len(Own.recs)
       \/ /\ Len(Calls) >= 2
          /\ FallbackUnfiltered.err = "none"
          /\ Len(FallbackAsked.recs) < Len(FallbackUnfiltered.recs)
    /\ \E i, j \in 1..Len(Result) :
          /\ Result[i].lvl = 0 /\ Result[j].lvl >= 1
          /\ Val(score(Result[i].dist)) < Val(score(Result[j].dist))

\* C6: with thresh_score = s supplied, every returned neighbour has a score
\* strictly above s.
C6_AboveThreshold ==
    (Returned /\ last.payload.thresh_score # Absent) =>
        \A j \in 1..Len(Result) :
            Result[j].dist # Absent =>
                Val(score(Result[j].dist)) > Val(last.payload.thresh_score)

\* C7: the returned list is never longer than k.
Thm_C7_AtMostK == Returned => Len(Result) <= last.payload.k

\* the handle's own search found more than k, or a chain of depth 3 was used
Wit_C7 ==
    /\ Returned
    /\ Len(Own.recs) > last.payload.k

Wit_C7_Depth == Returned /\ \E j \in 1..Len(Result) : Result[j].lvl >= 2

\* C8: for an id outside the index, the handle's own resolution fails only
\* if every configured strategy (table, then peer index) returns absent.
C8_FirstPresentWins ==
    (IsQuery /\ ById /\ last.payload.id \notin DOMAIN ids_d[last.h]
       /\ Own.err \in OoiErrors)
    => /\ ooi_dynamo_table[last.h] # None =>
             get_dynamo_emb(ooi_dynamo_table[last.h], last.payload.id) = Absent
       /\ ooi_ann[last.h] # None =>
             get_vector(ooi_ann[last.h], last.payload.id, Cardinality(Handles)) = Absent

\* C9: when the handle's own out-of-index resolution fails and a fallback
\* parent is set, the query goes on against the parent and does not fail
\* for that reason.
C9_FallbackOnOoiFailure ==
    (IsQuery /\ ById /\ Own.err \in OoiErrors /\ fallback_parent[last.h] # None
       /\ FallbackSame.err = "none")
    => last.res.err = "none"

\* C10: a payload with neither id nor emb, or with both, is rejected.
C10_ExactlyOne ==
    IsQuery =>
        (((last.payload.id = None) = (last.payload.emb = Absent))
            => last.res.err = "NoIdOrEmb")

\* C11: on_post answers 200, and when query resolution raises, the body is
\* the result object with an empty recs list.
C11_EmptyRecsOnError ==
    IsQuery =>
        /\ last.resp.status = "HTTP_200"
        /\ last.res.err # "none" =>
              (last.resp.body.kind = "object" /\ last.resp.body.recs = <<>>)

\* C12: a load() that fails at any point leaves path, ids, ids_d and
\* metadata as the previous successful load set them, and queries are
\* answered afterwards from that previous state: from those fields and the
\* index that was searched before the failed load.
ReloadJustFailed == last.op = "maybe_reload" /\ last.res.err = "ReloadFailed"

C13_ReloadFailureSwallowed == last.op = "maybe_reload" => last.res.err = "none"

\* C14: at most one reload of a handle is in flight at any time.
Reloading(t) ==
    pc[t] \in {"load_via_tar", "store_path", "store_ids", "store_ids_d", "store_meta"}

C14_OneReloadInFlight == Cardinality({t \in Threads : Reloading(t)}) <= 1

\* C15: the score of a neighbour is 1 - dist/2 (1 at distance 0, 0 at
\* distance 2, strictly decreasing), and absent exactly when the distance is.
\* With dist = D/10 and score = S/20 this reads 10 S = 200 - 10 D.
Thm_C15_Score ==
    Returned =>
        /\ \A j \in 1..Len(Result) :
              LET d == Result[j].dist
                  s == score(d)
              IN /\ (s = Absent) = (d = Absent)
                 /\ d # Absent =>
                       /\ 10 * Val(s) = 200 - 10 * Val(d)
                       /\ Val(d) = 0 => Val(s) = 20
                       /\ Val(d) = 20 => Val(s) = 0
                 /\ last.payload.incl_score => last.resp.body.recs[j].score = s
        /\ \A i, j \in 1..Len(Result) :
              (Result[i].dist # Absent /\ Result[j].dist # Absent
                 /\ Val(Result[i].dist) < Val(Result[j].dist))
              => Val(score(Result[i].dist)) > Val(score(Result[j].dist))

\* a response carrying the scores of a neighbour at distance 0 and of one at
\* distance 2
Wit_C15 ==
    /\ Returned /\ last.payload.incl_score
    /\ \E i, j \in 1..Len(Result) :
          /\ Result[i].dist = Some(0) /\ last.resp.body.recs[i].score = Some(20)
          /\ Result[j].dist = Some(20) /\ last.resp.body.recs[j].score = Some(0)

\* C16 as stated: with a threshold, the fallback levels hand back their
\* neighbours unfiltered; only the handle that got the request filters.
C16_FilteredOnce ==
    (Returned /\ thresh_of(last.payload) # Absent /\ Len(Calls) >= 2)
    => FallbackAsked.recs = FallbackUnfiltered.recs

\* C16 amended: the threshold travels down the chain with the payload, and
\* every level filters the list it returns; what a fallback parent hands
\* back holds no neighbour at or below the threshold.
Thm_C16_FilteredAtEveryLevel ==
    (IsQuery /\ Len(Calls) >= 2) =>
        /\ \A i \in 1..Len(Calls) :
              Calls[i].payload.thresh_score = last.payload.thresh_score
        /\ (FallbackAsked.err = "none" /\ thresh_of(last.payload) # Absent) =>
              \A j \in 1..Len(FallbackAsked.recs) :
                  /\ FallbackAsked.recs[j].dist # Absent
                  /\ Val(score(FallbackAsked.recs[j].dist))
                        > Val(thresh_of(last.payload))

\* a fallback parent dropped one of its neighbours by the threshold before
\* handing its list back
Wit_C16 ==
    /\ Returned /\ thresh_of(last.payload) # Absent /\ Len(Calls) >= 2
    /\ FallbackUnfiltered.err = "none"
    /\ Len(FallbackAsked.recs) < Len(FallbackUnfiltered.recs)
    /\ \E j \in 1..Len(Result) : Result[j].lvl >= 1

\* C17: a fallback parent is asked only by a handle that has one and found
\* fewer than k neighbours, and it gets the same payload with k replaced by
\* the deficit, which is at least 1.
Thm_C17_DeficitPayload ==
    IsQuery =>
        /\ Len(Calls) >= 1 =>
              /\ Calls[1].h = last.h /\ Calls[1].payload = last.payload
              /\ Own.err = "none" => Calls[1].own = Len(Own.recs)
        /\ \A i \in 1..(Len(Calls) - 1) :
              /\ fallback_parent[Calls[i].h] # None
              /\ Calls[i + 1].h = fallback_parent[Calls[i].h]
              /\ Calls[i].own < Calls[i].payload.k
              /\ Calls[i + 1].payload =
                     [Calls[i].payload EXCEPT !.k = Calls[i].payload.k - Calls[i].own]
              /\ Calls[i + 1].payload.k >= 1

\* two parents were asked in turn, the first handle having found something
Wit_C17 ==
    /\ Returned /\ Len(Calls) >= 3
    /\ Calls[1].own >= 1 /\ Calls[2].own >= 1
    /\ Calls[3].payload.k = last.payload.k - Calls[1].own - Calls[2].own

\* C18: on an acyclic chain of n handles every call terminates, asking each
\* handle at most once, in chain order, at most n deep.
RECURSIVE ChainFrom(_, _)
ChainFrom(h, fuel) ==
    IF h = None \/ fuel = 0 THEN <<>>
    ELSE <<h>> \o ChainFrom(fallback_parent[h], fuel - 1)

Chain(h) == ChainFrom(h, Cardinality(Handles) + 1)
Acyclic(h) == Len(Chain(h)) <= Cardinality(Handles)

Thm_C18_AcyclicTerminates ==
    (IsQuery /\ Acyclic(last.h)) =>
        /\ last.res.err # "RecursionError"
        /\ Len(Calls) <= Len(Chain(last.h))
        /\ \A i \in 1..Len(Calls) : Calls[i].h = Chain(last.h)[i]
        /\ \A i, j \in 1..Len(Calls) : Calls[i].h = Calls[j].h => i = j

\* a chain of three handles asked from end to end
Wit_C18 ==
    /\ Returned /\ Acyclic(last.h)
    /\ Len(Chain(last.h)) = 3 /\ Len(Calls) = 3

\* C19: whenever the threshold filter runs, every neighbour it looks at, the
\* handle's own and those handed back by fallback parents, has a distance,
\* whatever incl_dist and incl_score are; the comparison never meets an
\* absent score.
Thm_C19_ScorePresentWhenFiltering ==
    IsQuery =>
        /\ last.res.err # "TypeError"
        /\ thresh_of(last.payload) # Absent =>
              /\ Own.err = "none" =>
                    \A j \in 1..Len(Own.recs) : score(Own.recs[j].dist) # Absent
              /\ (Len(Calls) >= 2 /\ FallbackAsked.err = "none") =>
                    \A j \in 1..Len(FallbackAsked.recs) :
                        score(FallbackAsked.recs[j].dist) # Absent

\* a threshold with incl_dist and incl_score both false, filtering own and
\* fallback neighbours
Wit_C19 ==
    /\ Returned /\ thresh_of(last.payload) # Absent
    /\ ~last.payload.incl_dist /\ ~last.payload.incl_score
    /\ \E i, j \in 1..Len(Result) : Result[i].lvl = 0 /\ Result[j].lvl >= 1

\* C20: no identifier appears twice in the returned list.
C20_NoDuplicateIds ==
    Returned =>
        \A i, j \in 1..Len(Result) : Result[i].id_ = Result[j].id_ => i = j
====
